---- MODULE Spec2Model ----
(***************************************************************************)
(* Model of the Codebase Prompt Generator (src/main.py).                   *)
(*                                                                         *)
(* Text is a sequence of one-character strings.  The persisted stores     *)
(* (ignore_paths.txt, target_files.txt, individual_files.sh,              *)
(* codebase_prompt.txt) are Text values or Absent.  The filesystem is a    *)
(* fixed universe of regular files below the working directory, each with  *)
(* a content and a readability flag.                                       *)
(***************************************************************************)
EXTENDS Integers, Sequences, FiniteSets, TLC

VARIABLES
    pc,               \* position of the run inside main() / of a direct call
    mode,             \* main: the selected mode ("bulk" / "individual" / "none")
    target_folder,    \* main: the root entered in bulk mode (Text)
    ignore_set,       \* the in-process ignore set (set of Text)
    files,            \* list of Path objects handed to a serializer / scanner
    prompt_text,      \* the rendered prompt (Text), NoText before it exists
    diag,             \* diagnostics printed by the current run / call
    ignoreStore,      \* content of ignore_paths.txt, or Absent
    targetStore,      \* content of target_files.txt, or Absent
    scriptStore,      \* content of individual_files.sh, or Absent
    outputStore,      \* content of codebase_prompt.txt, or Absent
    content,          \* filesystem: regular file (absolute parts) -> Text
    unreadable,       \* filesystem: the files whose open()/read() raises
    symlinks,         \* filesystem: set of <<link parts, target parts>>
    walk,             \* filesystem: the order in which it enumerates its files
    file_path,        \* should_ignore call: the file argument (Path)
    result,           \* return value of the last direct call
    hist              \* history: what the stores held when the run started,
                      \* which branches the run took, the ignore lines typed

vars == << pc, mode, target_folder, ignore_set, files, prompt_text, diag,
           ignoreStore, targetStore, scriptStore, outputStore,
           content, unreadable, symlinks, walk, file_path, result, hist >>

-----------------------------------------------------------------------------
(* Bounds of the model.                                                    *)

MaxPatterns == 2      \* patterns in a drawn ignore set
MaxFiles == 2         \* length of a drawn file list
MaxLines == 2         \* lines in a drawn store file

-----------------------------------------------------------------------------
(* Text: Python str as a sequence of characters.                           *)

\* A store that does not exist, and a prompt not yet rendered: tokens that
\* are no Text (every element of a Text is one character).
Absent == <<"absent">>
NoText == <<"none">>

\* ord(c) for the characters the model uses (sorted() compares code points).
Ord(c) ==
    CASE c = "\t" -> 9
      [] c = "\n" -> 10
      [] c = " "  -> 32
      [] c = "#"  -> 35
      [] c = "'"  -> 39
      [] c = "."  -> 46
      [] c = "/"  -> 47
      [] c = "2"  -> 50
      [] c = "D"  -> 68
      [] c = "E"  -> 69
      [] c = "I"  -> 73
      [] c = "N"  -> 78
      [] c = "O"  -> 79
      [] c = "Y"  -> 89
      [] c = "\\" -> 92
      [] c = "a"  -> 97
      [] c = "b"  -> 98
      [] c = "d"  -> 100
      [] c = "e"  -> 101
      [] c = "n"  -> 110
      [] c = "o"  -> 111
      [] c = "w"  -> 119
      [] c = "y"  -> 121
      [] OTHER    -> 120

\* str.lower() on one character.
LowerChar(c) ==
    CASE c = "D" -> "d"
      [] c = "E" -> "e"
      [] c = "I" -> "i"
      [] c = "N" -> "n"
      [] c = "O" -> "o"
      [] c = "Y" -> "y"
      [] OTHER   -> c

Lower(s) == [i \in 1..Len(s) |-> LowerChar(s[i])]

\* The characters str.strip() removes.
Whitespace == {" ", "\n", "\t"}

RECURSIVE LStrip(_)
LStrip(s) ==
    IF s # <<>> /\ s[1] \in Whitespace THEN LStrip(Tail(s)) ELSE s

RECURSIVE RStrip(_)
RStrip(s) ==
    IF s # <<>> /\ s[Len(s)] \in Whitespace
    THEN RStrip(SubSeq(s, 1, Len(s) - 1))
    ELSE s

\* str.strip()
Strip(s) == RStrip(LStrip(s))

\* str.startswith(prefix)
StartsWith(s, prefix) ==
    /\ Len(prefix) <= Len(s)
    /\ SubSeq(s, 1, Len(prefix)) = prefix

\* Python's str < str : lexicographic on code points.
RECURSIVE StrLess(_, _)
StrLess(s, t) ==
    IF t = <<>> THEN FALSE
    ELSE IF s = <<>> THEN TRUE
    ELSE IF s[1] # t[1] THEN Ord(s[1]) < Ord(t[1])
    ELSE StrLess(Tail(s), Tail(t))

\* sorted(set_of_str)
RECURSIVE Sorted(_)
Sorted(S) ==
    IF S = {} THEN <<>>
    ELSE LET m == CHOOSE x \in S : \A y \in S \ {x} : StrLess(x, y)
         IN  <<m>> \o Sorted(S \ {m})

\* sep.join(list_of_str)
RECURSIVE Join(_, _)
Join(sep, xs) ==
    IF xs = <<>> THEN <<>>
    ELSE IF Len(xs) = 1 THEN xs[1]
    ELSE xs[1] \o sep \o Join(sep, Tail(xs))

\* str.split(sep) for a one-character separator.
RECURSIVE Split(_, _)
Split(s, sep) ==
    IF \A i \in 1..Len(s) : s[i] # sep THEN <<s>>
    ELSE LET i == CHOOSE k \in 1..Len(s) :
                      /\ s[k] = sep
                      /\ \A j \in 1..(k - 1) : s[j] # sep
         IN  <<SubSeq(s, 1, i - 1)>> \o Split(SubSeq(s, i + 1, Len(s)), sep)

\* Iterating a text file: the lines, each with its terminating newline; a
\* last line without a newline is yielded too, an empty tail is not.
RECURSIVE FileLines(_)
FileLines(text) ==
    IF text = <<>> THEN <<>>
    ELSE IF \A i \in 1..Len(text) : text[i] # "\n" THEN <<text>>
    ELSE LET i == CHOOSE k \in 1..Len(text) :
                      /\ text[k] = "\n"
                      /\ \A j \in 1..(k - 1) : text[j] # "\n"
         IN  <<SubSeq(text, 1, i)>> \o FileLines(SubSeq(text, i + 1, Len(text)))

\* str.replace("'", "\\'")
\* Mutant of EscapeQuotes: the text is passed through unescaped.
EscapeQuotes_Unescaped(s) == s

RECURSIVE EscapeQuotes(_)
EscapeQuotes(s) ==
    IF s = <<>> THEN <<>>
    ELSE (IF s[1] = "'" THEN <<"\\", "'">> ELSE <<s[1]>>) \o EscapeQuotes(Tail(s))

Range(f) == {f[i] : i \in DOMAIN f}

-----------------------------------------------------------------------------
(* pathlib.Path (posix flavour): a root and the list of parts after it.    *)

Slash == <<"/">>

LeadingSlashes(s) ==
    IF s = <<>> \/ s[1] # "/" THEN 0
    ELSE IF \A i \in 1..Len(s) : s[i] = "/" THEN Len(s)
    ELSE (CHOOSE k \in 1..Len(s) : s[k] # "/" /\ \A j \in 1..(k - 1) : s[j] = "/") - 1

\* Path(s): exactly two leading slashes are kept as the root "//"; empty
\* and "." components are dropped.
Path(s) ==
    LET n == LeadingSlashes(s)
    IN  [root  |-> IF n = 0 THEN <<>> ELSE IF n = 2 THEN <<"/", "/">> ELSE Slash,
         parts |-> SelectSeq(Split(s, "/"), LAMBDA x : x # <<>> /\ x # <<".">>)]

\* str(path) and path.as_posix()
PathStr(p) ==
    IF p.root = <<>> /\ p.parts = <<>> THEN <<".">>
    ELSE p.root \o Join(Slash, p.parts)

\* path / relative parts
PathJoin(p, rel) == [root |-> p.root, parts |-> p.parts \o rel]

IsPrefixSeq(xs, ys) == Len(xs) <= Len(ys) /\ SubSeq(ys, 1, Len(xs)) = xs

\* path.relative_to(other) raises ValueError unless this holds.
IsRelativeTo(p, other) ==
    /\ p.root = other.root
    /\ IsPrefixSeq(other.parts, p.parts)

\* path.relative_to(other), defined when IsRelativeTo(p, other).
RelativeTo(p, other) ==
    [root |-> <<>>, parts |-> SubSeq(p.parts, Len(other.parts) + 1, Len(p.parts))]

\* os.path.isabs(s)
IsAbs(s) == StartsWith(s, Slash)

-----------------------------------------------------------------------------
(* The filesystem seen by the program.                                      *)

\* Shorthand for the Text of a word.
T_b == <<"b">>
T_b2 == <<"b", "2">>
T_o == <<"o">>
T_w == <<"w">>
T_l == <<"l">>
T_s == <<"s">>
T_done == <<"d", "o", "n", "e">>
T_y == <<"y">>
T_bulk == <<"b", "u", "l", "k">>
T_individual == <<"i", "n", "d", "i", "v", "i", "d", "u", "a", "l">>

\* The working directory of the process, as absolute parts: /w
CwdParts == <<T_w>>

\* The absolute parts the operating system walks for the path string s.
OsParts(s) ==
    LET p == Path(s)
    IN  IF p.root # <<>> THEN p.parts ELSE CwdParts \o p.parts

\* The directories: every proper prefix of a regular file's parts.
Directories ==
    UNION {{SubSeq(f, 1, k) : k \in 0..(Len(f) - 1)} : f \in DOMAIN content}

\* os.path.isdir(s)
IsDir(s) == s # <<>> /\ OsParts(s) \in Directories

\* os.path.isfile(s): a trailing "/" or "/." names a directory, never a file.
IsFile(s) ==
    /\ s # <<>>
    /\ LET last == Split(s, "/")[Len(Split(s, "/"))]
       IN  last # <<>> /\ last # <<".">>
    /\ OsParts(s) \in DOMAIN content

\* path.resolve(): absolute, with a symlinked leading directory replaced by
\* its target.
Resolve(p) ==
    LET abs == IF p.root # <<>> THEN p.parts ELSE CwdParts \o p.parts
        hit == {l \in symlinks : IsPrefixSeq(l[1], abs)}
    IN  [root  |-> Slash,
         parts |-> IF hit = {} THEN abs
                   ELSE LET l == CHOOSE x \in hit : TRUE
                        IN  l[2] \o SubSeq(abs, Len(l[1]) + 1, Len(abs))]

-----------------------------------------------------------------------------
(* Path Filter and Directory Walker.                                        *)

\* Mutant of should_ignore: a relative pattern matches whole path segments
\* only.
should_ignore_segments(fp, target, ignores) ==
    LET abs_file == Resolve(fp)
    IN  IF ~IsRelativeTo(fp, target) THEN TRUE
        ELSE LET rel_file == PathStr(RelativeTo(fp, target))
             IN  \E ignore \in ignores :
                     IF IsAbs(ignore)
                     THEN StartsWith(PathStr(abs_file), ignore)
                     ELSE \/ rel_file = ignore
                          \/ StartsWith(rel_file, ignore \o Slash)

\* should_ignore(file_path, target_folder, ignore_set)
should_ignore(fp, target, ignores) ==
    LET abs_file == Resolve(fp)
    IN  IF ~IsRelativeTo(fp, target) THEN TRUE
        ELSE LET rel_file == PathStr(RelativeTo(fp, target))
             IN  \E ignore \in ignores :
                     IF IsAbs(ignore)
                     THEN StartsWith(PathStr(abs_file), ignore)
                     ELSE StartsWith(rel_file, ignore)

\* target_path.rglob('*') restricted to regular files: every file below the
\* directory, as target_path / <relative parts>, in the order the
\* filesystem enumerates them (walk).
Rglob(target) ==
    LET dir == OsParts(target)
        under == SelectSeq(walk, LAMBDA f : IsPrefixSeq(dir, f))
    IN  [i \in 1..Len(under) |->
            PathJoin(Path(target), SubSeq(under[i], Len(dir) + 1, Len(under[i])))]

\* get_all_files(target_folder, ignore_set)
get_all_files(target, ignores) ==
    SelectSeq(Rglob(target), LAMBDA fp : ~should_ignore(fp, Path(target), ignores))

-----------------------------------------------------------------------------
(* Prompt Serializer.                                                       *)

Header ==
    << "M", "y", " ", "c", "o", "d", "e", "b", "a", "s", "e", " ",
       "i", "n", "c", "l", "u", "d", "e", "s" >>

Quote == <<"'">>
With == <<" ", "w", "i", "t", "h", " ">>
Newline == <<"\n">>
Dot == <<".">>

\* open(file_path, 'r').read() raises for a missing or unreadable file.
ReadFails(fp) ==
    \/ ~IsFile(PathStr(fp))
    \/ OsParts(PathStr(fp)) \in unreadable

ReadFile(fp) == content[OsParts(PathStr(fp))]

\* f"'{id_escaped}' with '{contents_escaped}'"
Entry(id, contents) ==
    Quote \o EscapeQuotes(id) \o Quote \o With \o Quote \o EscapeQuotes(contents) \o Quote

\* Mutant of Assemble: the entries are joined by ", " instead of ",\n".
Assemble_CommaSpace(file_entries) ==
    Join(Newline, <<Header, Join(<<",", " ">>, file_entries), Dot>>)

\* "\n".join([header, ",\n".join(file_entries), "."])
Assemble(file_entries) ==
    Join(Newline, <<Header, Join(<<",", "\n">>, file_entries), Dot>>)

\* Mutant of BulkEntries: a read failure ends the loop instead of skipping
\* the file.
RECURSIVE BulkEntries_StopsAtError(_, _)
BulkEntries_StopsAtError(target, fl) ==
    IF fl = <<>> THEN <<>>
    ELSE LET fp == Head(fl)
             relative_path == PathStr(RelativeTo(fp, Path(target)))
         IN  IF ReadFails(fp) THEN <<>>
             ELSE IF Strip(ReadFile(fp)) = <<>>
                  THEN BulkEntries_StopsAtError(target, Tail(fl))
             ELSE <<Entry(relative_path, ReadFile(fp))>>
                      \o BulkEntries_StopsAtError(target, Tail(fl))

\* The loop of generate_prompt: the entries of the files that are read and
\* not blank, in list order.
RECURSIVE BulkEntries(_, _)
BulkEntries(target, fl) ==
    IF fl = <<>> THEN <<>>
    ELSE LET fp == Head(fl)
             relative_path == PathStr(RelativeTo(fp, Path(target)))
         IN  IF ReadFails(fp) THEN BulkEntries(target, Tail(fl))
             ELSE IF Strip(ReadFile(fp)) = <<>> THEN BulkEntries(target, Tail(fl))
             ELSE <<Entry(relative_path, ReadFile(fp))>> \o BulkEntries(target, Tail(fl))

\* generate_prompt(target_folder, files)
generate_prompt(target, fl) == Assemble(BulkEntries(target, fl))

\* Mutant of IndividualEntries: only empty files are skipped, whitespace-only
\* ones are kept.
RECURSIVE IndividualEntries_KeepsBlank(_)
IndividualEntries_KeepsBlank(fl) ==
    IF fl = <<>> THEN <<>>
    ELSE LET fp == Head(fl)
         IN  IF ReadFails(fp) THEN IndividualEntries_KeepsBlank(Tail(fl))
             ELSE IF ReadFile(fp) = <<>> THEN IndividualEntries_KeepsBlank(Tail(fl))
             ELSE <<Entry(PathStr(fp), ReadFile(fp))>>
                      \o IndividualEntries_KeepsBlank(Tail(fl))

\* The loop of generate_prompt_individual.
RECURSIVE IndividualEntries(_)
IndividualEntries(fl) ==
    IF fl = <<>> THEN <<>>
    ELSE LET fp == Head(fl)
         IN  IF ReadFails(fp) THEN IndividualEntries(Tail(fl))
             ELSE IF Strip(ReadFile(fp)) = <<>> THEN IndividualEntries(Tail(fl))
             ELSE <<Entry(PathStr(fp), ReadFile(fp))>> \o IndividualEntries(Tail(fl))

\* generate_prompt_individual(files)
generate_prompt_individual(fl) == Assemble(IndividualEntries(fl))

\* The "Error reading ..." lines either serializer prints, in order.
ReadErrors(fl) ==
    LET bad == SelectSeq(fl, ReadFails)
    IN  [i \in 1..Len(bad) |-> [kind |-> "read_error", path |-> PathStr(bad[i])]]

-----------------------------------------------------------------------------
(* Ignore-Set Store.                                                        *)

\* load_ignore_paths(): the stripped non-empty lines of the ignore file; the
\* empty set when the file is missing.
load_ignore_paths(store) ==
    IF store = Absent THEN {}
    ELSE {Strip(l) : l \in Range(FileLines(store))} \ {<<>>}

\* The text written line by line: each item followed by a newline.
RECURSIVE WriteLines(_)
WriteLines(xs) ==
    IF xs = <<>> THEN <<>> ELSE xs[1] \o Newline \o WriteLines(Tail(xs))

\* Mutant of save_ignore_paths: the patterns are written without the
\* newline after each.
save_ignore_paths_NoNewline(ignores) == Join(<<>>, Sorted(ignores))

\* save_ignore_paths(ignore_set): the new content of the ignore file.
save_ignore_paths(ignores) == WriteLines(Sorted(ignores))

\* Mutant of prompt_add: a blank input is added like any other.
prompt_add_KeepsBlank(ignores, line) ==
    LET user_input == Strip(line)
    IN  IF user_input \in ignores THEN ignores
        ELSE ignores \cup {user_input}

\* One iteration of the input loop of prompt_for_ignore_paths that is not
\* the sentinel: the ignore set after the input line.
prompt_add(ignores, line) ==
    LET user_input == Strip(line)
    IN  IF user_input = <<>> THEN ignores
        ELSE IF user_input \in ignores THEN ignores
        ELSE ignores \cup {user_input}

\* user_input.lower() == 'done'
IsSentinel(line) == Lower(Strip(line)) = T_done

-----------------------------------------------------------------------------
(* Individual List Loader and the individual-files script.                  *)

ScriptHeader ==
    << "#", "!", "/", "b", "i", "n", "/", "b", "a", "s", "h", "\n", "#", " ",
       "S", "c", "r", "i", "p", "t", " ", "c", "o", "n", "t", "a", "i", "n",
       "i", "n", "g", " ", "f", "i", "l", "e", " ", "p", "a", "t", "h", "s",
       " ", "u", "s", "e", "d", " ", "f", "o", "r", " ", "p", "r", "o", "m",
       "p", "t", " ", "g", "e", "n", "e", "r", "a", "t", "i", "o", "n", ".",
       "\n", "#", " ", "Y", "o", "u", " ", "c", "a", "n", " ", "u", "s", "e",
       " ", "t", "h", "i", "s", " ", "f", "i", "l", "e", " ", "a", "s", " ",
       "i", "n", "p", "u", "t", " ", "f", "o", "r", " ", "f", "u", "t", "u",
       "r", "e", " ", "r", "u", "n", "s", ".", "\n", "\n" >>

\* save_individual_files_script(files): the new content of the script.
save_individual_files_script(fl) ==
    ScriptHeader \o WriteLines([i \in 1..Len(fl) |-> PathStr(fl[i])])

\* The stripped non-empty lines of the primary list.
TargetLines(store) ==
    SelectSeq([i \in 1..Len(FileLines(store)) |-> Strip(FileLines(store)[i])],
              LAMBDA l : l # <<>>)

\* Mutant of ScriptLines: comment lines are not skipped.
ScriptLines_KeepsComments(store) ==
    SelectSeq([i \in 1..Len(FileLines(store)) |-> Strip(FileLines(store)[i])],
              LAMBDA l : l # <<>>)

\* The stripped lines of the script that are neither comments nor blank.
ScriptLines(store) ==
    SelectSeq([i \in 1..Len(FileLines(store)) |-> Strip(FileLines(store)[i])],
              LAMBDA l : ~(StartsWith(l, <<"#">>) \/ l = <<>>))

ValidPaths(lines) ==
    LET ok == SelectSeq(lines, IsFile)
    IN  [i \in 1..Len(ok) |-> Path(ok[i])]

InvalidWarnings(lines, source) ==
    LET bad == SelectSeq(lines, LAMBDA l : ~IsFile(l))
    IN  [i \in 1..Len(bad) |-> [kind |-> "invalid", path |-> bad[i], source |-> source]]

Loaded(n, source) == << [kind |-> "loaded", count |-> n, source |-> source] >>
NoValid(source) == << [kind |-> "no_valid", source |-> source] >>
NoneLoaded == << [kind |-> "none_loaded"] >>

\* load_individual_files_from_file(): the returned list (none = TRUE for
\* Python's None) and the lines printed.
load_individual_files_from_file(target, script) ==
    LET tl == IF target = Absent THEN <<>> ELSE TargetLines(target)
        sl == IF script = Absent THEN <<>> ELSE ScriptLines(script)
        d1 == IF target = Absent THEN <<>>
              ELSE InvalidWarnings(tl, "target_files.txt")
        d2 == IF script = Absent THEN <<>>
              ELSE InvalidWarnings(sl, "individual_files.sh")
    IN  IF target # Absent /\ ValidPaths(tl) # <<>>
        THEN [none  |-> FALSE,
              paths |-> ValidPaths(tl),
              diag  |-> d1 \o Loaded(Len(ValidPaths(tl)), "target_files.txt")]
        ELSE LET e1 == IF target = Absent THEN <<>>
                       ELSE d1 \o NoValid("target_files.txt")
             IN  IF script # Absent /\ ValidPaths(sl) # <<>>
                 THEN [none  |-> FALSE,
                       paths |-> ValidPaths(sl),
                       diag  |-> e1 \o d2
                                 \o Loaded(Len(ValidPaths(sl)), "individual_files.sh")]
                 ELSE [none  |-> TRUE,
                       paths |-> <<>>,
                       diag  |-> e1
                                 \o (IF script = Absent THEN <<>>
                                     ELSE d2 \o NoValid("individual_files.sh"))
                                 \o NoneLoaded]

-----------------------------------------------------------------------------
(* main(): one action per input() the run waits on; each action runs the   *)
(* code up to the next input() or to the end of the run.                    *)

NoFilesSelected ==
    << "N", "o", " ", "f", "i", "l", "e", "s", " ", "s", "e", "l", "e", "c",
       "t", "e", "d", " ", "f", "o", "r", " ", "i", "n", "d", "i", "v", "i",
       "d", "u", "a", "l", " ", "p", "r", "o", "m", "p", "t", " ", "g", "e",
       "n", "e", "r", "a", "t", "i", "o", "n", "." >>

\* Lines 270-273: the mode prompt, repeated until the answer is valid.
SelectMode(line) ==
    /\ pc = "mode"
    /\ LET m == Lower(Strip(line))
       IN  IF m \in {T_bulk, T_individual}
           THEN /\ mode' = m
                /\ pc' = IF m = T_bulk THEN "root" ELSE "load_option"
           ELSE UNCHANGED << mode, pc >>
    /\ UNCHANGED << target_folder, ignore_set, files, prompt_text, diag,
                    ignoreStore, targetStore, scriptStore, outputStore,
                    content, unreadable, symlinks, walk, file_path, result, hist >>

\* Mutant of EnterRoot: the ignore set is loaded before the root is checked.
EnterRoot_LoadsFirst(line) ==
    /\ pc = "root"
    /\ target_folder' = Strip(line)
    /\ ignore_set' = load_ignore_paths(ignoreStore)
    /\ hist' = [hist EXCEPT !.loaded_ignore = TRUE]
    /\ pc' = IF ~IsDir(Strip(line)) THEN "exit1" ELSE "update"
    /\ UNCHANGED << mode, files, prompt_text, diag,
                    ignoreStore, targetStore, scriptStore, outputStore,
                    content, unreadable, symlinks, walk, file_path, result >>

\* Lines 277-283: the root prompt; an invalid root ends the run with
\* sys.exit(1), a valid one loads the ignore set.
EnterRoot(line) ==
    /\ pc = "root"
    /\ target_folder' = Strip(line)
    /\ IF ~IsDir(Strip(line))
       THEN /\ pc' = "exit1"
            /\ UNCHANGED << ignore_set, hist >>
       ELSE /\ pc' = "update"
            /\ ignore_set' = load_ignore_paths(ignoreStore)
            /\ hist' = [hist EXCEPT !.loaded_ignore = TRUE]
    /\ UNCHANGED << mode, files, prompt_text, diag,
                    ignoreStore, targetStore, scriptStore, outputStore,
                    content, unreadable, symlinks, walk, file_path, result >>

\* Lines 294-300 and 334-337: scan, render, write the output artifact.
FinishBulk(ignores) ==
    /\ files' = get_all_files(target_folder, ignores)
    /\ prompt_text' = generate_prompt(target_folder, files')
    /\ diag' = diag \o ReadErrors(files')
    /\ outputStore' = prompt_text'
    /\ pc' = "done"

\* Lines 286-292: the answer to "update the ignore paths?".
AnswerUpdate(line) ==
    /\ pc = "update"
    /\ IF Lower(Strip(line)) = T_y
       THEN /\ pc' = "ignore_loop"
            /\ hist' = [hist EXCEPT !.updated = TRUE]
            /\ UNCHANGED << files, prompt_text, diag, outputStore >>
       ELSE /\ FinishBulk(ignore_set)
            /\ UNCHANGED hist
    /\ UNCHANGED << mode, target_folder, ignore_set,
                    ignoreStore, targetStore, scriptStore,
                    content, unreadable, symlinks, walk, file_path, result >>

\* Lines 72-83 and 288-300: one input of prompt_for_ignore_paths; the
\* sentinel ends the loop, saves the set and finishes the bulk run.
IgnoreInput(line) ==
    /\ pc = "ignore_loop"
    /\ IF IsSentinel(line)
       THEN /\ ignoreStore' = save_ignore_paths(ignore_set)
            /\ FinishBulk(ignore_set)
            /\ UNCHANGED << ignore_set, hist >>
       ELSE /\ ignore_set' = prompt_add(ignore_set, line)
            /\ hist' = [hist EXCEPT !.typed = @ \cup {line}]
            /\ UNCHANGED << pc, files, prompt_text, diag, ignoreStore, outputStore >>
    /\ UNCHANGED << mode, target_folder, targetStore, scriptStore,
                    content, unreadable, symlinks, walk, file_path, result >>

\* Lines 306-311: the answer to "load file paths from file?".
AnswerLoad(line) ==
    /\ pc = "load_option"
    /\ pc' = "file_loop"
    /\ IF Lower(Strip(line)) = T_y
       THEN LET loaded == load_individual_files_from_file(targetStore, scriptStore)
            IN  /\ files' = IF loaded.none THEN <<>> ELSE loaded.paths
                /\ diag' = diag \o loaded.diag
                /\ hist' = [hist EXCEPT !.loaded = TRUE]
       ELSE UNCHANGED << files, diag, hist >>
    /\ UNCHANGED << mode, target_folder, ignore_set, prompt_text,
                    ignoreStore, targetStore, scriptStore, outputStore,
                    content, unreadable, symlinks, walk, file_path, result >>

\* Lines 324-337: render the selection, write the script and the output.
FinishIndividual ==
    /\ IF files # <<>>
       THEN /\ prompt_text' = generate_prompt_individual(files)
            /\ diag' = diag \o ReadErrors(files)
            /\ scriptStore' = save_individual_files_script(files)
       ELSE /\ prompt_text' = NoFilesSelected
            /\ UNCHANGED << diag, scriptStore >>
    /\ outputStore' = prompt_text'
    /\ pc' = "done"

\* Lines 315-322 and 324-337: one input of the file-path loop.
FileInput(line) ==
    /\ pc = "file_loop"
    /\ LET file_input == Strip(line)
       IN  IF Lower(file_input) = T_done
           THEN /\ FinishIndividual
                /\ UNCHANGED files
           ELSE /\ IF ~IsFile(file_input)
                   THEN UNCHANGED files
                   ELSE /\ Len(files) < MaxFiles
                        /\ files' = Append(files, Path(file_input))
                /\ UNCHANGED << pc, prompt_text, diag, scriptStore, outputStore >>
    /\ UNCHANGED << mode, target_folder, ignore_set, ignoreStore, targetStore,
                    content, unreadable, symlinks, walk, file_path, result, hist >>

-----------------------------------------------------------------------------
(* The environment of a run: the files on disk and what the user types.    *)
(* The four store files are not part of the file universe: no input names  *)
(* one of them and no scanned root contains the working directory.  No     *)
(* path has a ".." component.                                               *)

F_c == <<T_w, <<"#", "c">>>>               \* /w/#c
F_q == <<T_w, T_s, <<"'", "a">>>>           \* /w/s/'a
F_o == <<T_w, T_s, T_b, T_o>>               \* /w/s/b/o
F_o2 == <<T_w, T_s, T_b2, T_o>>             \* /w/s/b2/o
Universe == {F_c, F_q, F_o, F_o2}

Blank == <<" ", "\n", "\t">>

MainContent ==
    (F_c :> <<"a", "'", "b">>) @@ (F_q :> <<"a", "\n">>) @@
    (F_o :> Blank) @@ (F_o2 :> <<"b">>)

ModeInputs == {T_bulk, <<" ", "I", "n", "d", "i", "v", "i", "d", "u", "a", "l">>, <<"b">>}
RootInputs == {<<"s">>, <<"/", "w", "/", "s", "/">>, <<"s", "/", "b", "/", "o">>, <<"z", "z">>, <<>>}
YesNoInputs == {<<"y">>, <<"Y", " ">>, <<"n">>, <<>>}
IgnoreInputs ==
    {<<"b">>,
     <<" ", "b", " ">>,
     <<"b", "/">>,
     <<"/", "w", "/", "s", "/", "b", "2">>,
     <<>>,
     <<"d", "o", "n", "e">>,
     <<" ", "D", "O", "N", "E">>}
FileInputs ==
    {<<"s", "/", "b", "2", "/", "o">>,
     <<".", "/", "#", "c">>,
     <<"s", "/", "'", "a">>,
     <<"z", "z">>,
     <<"s", "/">>,
     <<"D", "o", "n", "e">>}

IgnoreStoreInits ==
    {Absent, <<>>,
     <<"b", "\n">>,
     <<"b", "/", "\n", "\n", " ", "b", " ", "\n", "b", "\n">>,
     <<"b", "2", "\n", "b", "/">>}
TargetStoreInits ==
    {Absent, <<"z", "z", "\n">>, <<"s", "/", "b", "2", "/", "o", "\n">>}
ScriptStoreInits ==
    {Absent, ScriptHeader \o <<"s", "/", "'", "a", "\n">>}
OutputStoreInits == {Absent, <<"o", "l", "d">>}

NoHist ==
    [ignore |-> Absent, script |-> Absent, output |-> Absent,
     loaded_ignore |-> FALSE, updated |-> FALSE, loaded |-> FALSE, typed |-> {}]

Init ==
    /\ pc = "mode"
    /\ mode = <<>>
    /\ target_folder = <<>>
    /\ ignore_set = {}
    /\ files = <<>>
    /\ prompt_text = NoText
    /\ diag = <<>>
    /\ ignoreStore \in IgnoreStoreInits
    /\ targetStore \in TargetStoreInits
    /\ scriptStore \in ScriptStoreInits
    /\ outputStore \in OutputStoreInits
    /\ content = MainContent
    /\ unreadable \in {{}, {F_o2}}
    /\ symlinks = {}
    /\ walk \in {<<F_c, F_q, F_o, F_o2>>, <<F_o2, F_o, F_c, F_q>>}
    /\ file_path = Path(<<>>)
    /\ result = FALSE
    /\ hist = [NoHist EXCEPT !.ignore = ignoreStore, !.script = scriptStore,
                             !.output = outputStore]

Next ==
    \/ \E line \in ModeInputs : SelectMode(line)
    \/ \E line \in RootInputs : EnterRoot(line)
    \/ \E line \in YesNoInputs : AnswerUpdate(line)
    \/ \E line \in IgnoreInputs : IgnoreInput(line)
    \/ \E line \in YesNoInputs : AnswerLoad(line)
    \/ \E line \in FileInputs : FileInput(line)

Spec == Init /\ [][Next]_vars

-----------------------------------------------------------------------------
(* Direct calls of the components, with arguments drawn from bounded sets. *)

\* The sequences over S of length at most n.
SeqUpTo(S, n) == UNION {[1..k -> S] : k \in 0..n}

\* The subsets of S with at most n elements.
SubsetsUpTo(S, n) == {X \in SUBSET S : Cardinality(X) <= n}

\* --- should_ignore -------------------------------------------------------

FilterFiles ==
    {<<"s", "/", "b", "/", "o">>,
     <<"s", "/", "b", "2", "/", "o">>,
     <<"/", "w", "/", "s", "/", "b", "/", "o">>,
     <<"/", "w", "/", "s", "/", "b", "2", "/", "o">>,
     <<"l", "/", "o">>,
     <<"s", "/", "'", "a">>}
FilterRoots ==
    {<<"s">>,
     <<"/", "w", "/", "s">>,
     <<".">>,
     <<"s", "/", "b">>,
     <<"l">>,
     <<"/", "w">>}
PatternPool ==
    {<<"b">>,
     <<"b", "/">>,
     <<"b", "2">>,
     <<"s">>,
     <<"o">>,
     <<"/", "w", "/", "s", "/", "b">>,
     <<"/", "w", "/", "s", "/", "b", "/">>,
     <<"/">>,
     <<"w", "/", "s">>,
     <<"/", "w", "/", "l">>}

\* /w/l is a symbolic link to the directory /w/s/b.
LinkToB == << <<T_w, T_l>>, <<T_w, T_s, T_b>> >>

InitFilter ==
    /\ pc = "call_should_ignore"
    /\ mode = <<>>
    /\ target_folder \in FilterRoots
    /\ ignore_set \in SubsetsUpTo(PatternPool, MaxPatterns)
    /\ files = <<>>
    /\ prompt_text = NoText
    /\ diag = <<>>
    /\ ignoreStore = Absent
    /\ targetStore = Absent
    /\ scriptStore = Absent
    /\ outputStore = Absent
    /\ content = MainContent
    /\ unreadable = {}
    /\ symlinks \in {{}, {LinkToB}}
    /\ walk = <<F_c, F_q, F_o, F_o2>>
    /\ file_path \in {Path(f) : f \in FilterFiles}
    /\ result = FALSE
    /\ hist = NoHist

CallShouldIgnore ==
    /\ pc = "call_should_ignore"
    /\ pc' = "ret_should_ignore"
    /\ result' = should_ignore(file_path, Path(target_folder), ignore_set)
    /\ UNCHANGED << mode, target_folder, ignore_set, files, prompt_text, diag,
                    ignoreStore, targetStore, scriptStore, outputStore,
                    content, unreadable, symlinks, walk, file_path, hist >>

NextFilter == CallShouldIgnore

SpecFilter == InitFilter /\ [][NextFilter]_vars

\* --- generate_prompt / generate_prompt_individual ------------------------

ContentPool ==
    {<<>>,
     <<" ", "\n", "\t">>,
     <<"a", "'", "b">>,
     <<"a", "\\">>,
     <<"\\", "'", "a", "\n">>}
RenderRoots == {<<"s">>,
    <<"/", "w", "/", "s", "/">>}
IndividualPaths ==
    {<<"#", "c">>,
     <<"s", "/", "'", "a">>,
     <<"/", "w", "/", "s", "/", "b", "2", "/", "o">>,
     <<"z", "z">>}

InitRender ==
    /\ pc = "call_render"
    /\ mode = <<>>
    /\ target_folder = <<>>
    /\ ignore_set = {}
    /\ files = <<>>
    /\ prompt_text = NoText
    /\ diag = <<>>
    /\ ignoreStore = Absent
    /\ targetStore = Absent
    /\ scriptStore = Absent
    /\ outputStore = Absent
    /\ \E c1 \in ContentPool, c2 \in ContentPool \ {<<>>, Blank},
          c3 \in {Blank, <<"a", "\\">>}, c4 \in {<<>>, <<"a", "'", "b">>} :
           content = (F_c :> c1) @@ (F_q :> c2) @@ (F_o :> c3) @@ (F_o2 :> c4)
    /\ unreadable \in {{}, {F_q}}
    /\ symlinks = {}
    /\ walk = <<F_c, F_q, F_o, F_o2>>
    /\ file_path = Path(<<>>)
    /\ result = FALSE
    /\ hist = NoHist

CallGeneratePrompt ==
    /\ pc = "call_render"
    /\ \E root \in RenderRoots :
       \E fl \in SeqUpTo(Range(Rglob(root)), MaxFiles) :
           /\ target_folder' = root
           /\ files' = fl
           /\ prompt_text' = generate_prompt(root, fl)
           /\ diag' = ReadErrors(fl)
    /\ pc' = "ret_bulk"
    /\ UNCHANGED << mode, ignore_set,
                    ignoreStore, targetStore, scriptStore, outputStore,
                    content, unreadable, symlinks, walk, file_path, result, hist >>

CallGeneratePromptIndividual ==
    /\ pc = "call_render"
    /\ \E fl \in SeqUpTo({Path(f) : f \in IndividualPaths}, MaxFiles) :
           /\ files' = fl
           /\ prompt_text' = generate_prompt_individual(fl)
           /\ diag' = ReadErrors(fl)
    /\ pc' = "ret_individual"
    /\ UNCHANGED << mode, target_folder, ignore_set,
                    ignoreStore, targetStore, scriptStore, outputStore,
                    content, unreadable, symlinks, walk, file_path, result, hist >>

NextRender ==
    \/ CallGeneratePrompt
    \/ CallGeneratePromptIndividual

SpecRender == InitRender /\ [][NextRender]_vars

\* --- load_individual_files_from_file -------------------------------------

TargetLinePool ==
    {<<"s", "/", "b", "2", "/", "o", "\n">>,
     <<" ", ".", "/", "#", "c", " ", "\n">>,
     <<"z", "z", "\n">>,
     <<"\n">>,
     <<"s", "/", "'", "a">>}
ScriptLinePool ==
    {<<"#", " ", "x", "\n">>,
     <<"#", "c", "\n">>,
     <<"s", "/", "b", "2", "/", "o", "\n">>,
     <<"z", "z", "\n">>,
     <<"\t", "\n">>,
     <<" ", "s", "/", "'", "a", "\n">>}

\* The concatenation of a list of lines.
RECURSIVE Concat(_)
Concat(ls) == IF ls = <<>> THEN <<>> ELSE ls[1] \o Concat(Tail(ls))

InitLoader ==
    /\ pc = "call_load"
    /\ mode = <<>>
    /\ target_folder = <<>>
    /\ ignore_set = {}
    /\ files = <<>>
    /\ prompt_text = NoText
    /\ diag = <<>>
    /\ ignoreStore = Absent
    /\ targetStore \in {Absent} \cup {Concat(ls) : ls \in SeqUpTo(TargetLinePool, MaxLines)}
    /\ scriptStore \in {Absent} \cup {Concat(ls) : ls \in SeqUpTo(ScriptLinePool, MaxLines)}
    /\ outputStore = Absent
    /\ content = MainContent
    /\ unreadable = {}
    /\ symlinks = {}
    /\ walk = <<F_c, F_q, F_o, F_o2>>
    /\ file_path = Path(<<>>)
    /\ result = FALSE
    /\ hist = NoHist

CallLoadIndividualFiles ==
    /\ pc = "call_load"
    /\ pc' = "ret_load"
    /\ LET loaded == load_individual_files_from_file(targetStore, scriptStore)
       IN  /\ result' = [none |-> loaded.none, paths |-> loaded.paths]
           /\ diag' = loaded.diag
    /\ UNCHANGED << mode, target_folder, ignore_set, files, prompt_text,
                    ignoreStore, targetStore, scriptStore, outputStore,
                    content, unreadable, symlinks, walk, file_path, hist >>

NextLoader == CallLoadIndividualFiles

SpecLoader == InitLoader /\ [][NextLoader]_vars

-----------------------------------------------------------------------------
(* Vocabulary of the properties, defined without the program's operators.  *)

\* p is a string prefix of s.
HasPrefix(s, p) ==
    /\ Len(p) <= Len(s)
    /\ \A i \in 1..Len(p) : s[i] = p[i]

\* sub occurs in text at position i.
OccursAt(sub, text, i) ==
    /\ i + Len(sub) - 1 <= Len(text)
    /\ \A k \in 1..Len(sub) : text[i + k - 1] = sub[k]

Occurrences(sub, text) == Cardinality({i \in 1..Len(text) : OccursAt(sub, text, i)})

\* l without its leading and trailing whitespace.
Trim(l) ==
    LET keep == {i \in 1..Len(l) : l[i] \notin Whitespace}
    IN  IF keep = {} THEN <<>>
        ELSE LET lo == CHOOSE i \in keep : \A j \in keep : i <= j
                 hi == CHOOSE i \in keep : \A j \in keep : j <= i
             IN  [k \in 1..(hi - lo + 1) |-> l[lo + k - 1]]

\* The trimmed lines of a text, in order (a line ends at a newline or at
\* the end of the text).
TrimmedLines(text) ==
    LET ls == Split(text, "\n") IN [i \in 1..Len(ls) |-> Trim(ls[i])]

\* s with a backslash put before every single quote.
Escaped(s) == Join(<<"\\", "'">>, Split(s, "'"))

\* The file behind a Path can be read, and its content is not blank.
Readable(fp) ==
    /\ OsParts(PathStr(fp)) \in DOMAIN content
    /\ OsParts(PathStr(fp)) \notin unreadable

ContentOf(fp) == content[OsParts(PathStr(fp))]

Included(fp) ==
    /\ Readable(fp)
    /\ \E i \in 1..Len(ContentOf(fp)) : ContentOf(fp)[i] \notin Whitespace

Returned == pc \in {"ret_bulk", "ret_individual"}

\* The identifier of an entry: the root-relative posix path after a bulk
\* call, the path as supplied after an individual call.
IdOf(fp) ==
    IF pc = "ret_bulk"
    THEN SubSeq(PathStr(fp), Len(PathStr(Path(target_folder))) + 2, Len(PathStr(fp)))
    ELSE PathStr(fp)

IncludedFiles == SelectSeq(files, Included)

\* '<id>' with '<content>' for given renderings of id and content.
Formatted(id, text) ==
    <<"'">> \o id \o <<"'", " ", "w", "i", "t", "h", " ", "'">> \o text \o <<"'">>

\* The entries joined by ",\n".
RECURSIVE ExpectedBody(_)
ExpectedBody(entries) ==
    IF entries = <<>> THEN <<>>
    ELSE LET n == Len(entries)
         IN  IF n = 1 THEN entries[1]
             ELSE ExpectedBody(SubSeq(entries, 1, n - 1)) \o <<",", "\n">> \o entries[n]

ExpectedPrompt(fl, Esc(_)) ==
    Header \o <<"\n">>
        \o ExpectedBody([i \in 1..Len(fl) |->
                            Formatted(Esc(IdOf(fl[i])), Esc(ContentOf(fl[i])))])
        \o <<"\n", ".">>

Identity(s) == s

\* The number of single quotes of a text that no backslash precedes.
BareQuotes(text) ==
    Cardinality({i \in 1..Len(text) :
                    text[i] = "'" /\ (i = 1 \/ text[i - 1] # "\\")})

QuoteCount(text) == Cardinality({i \in 1..Len(text) : text[i] = "'"})

RECURSIVE Sum(_)
Sum(ns) == IF ns = <<>> THEN 0 ELSE Head(ns) + Sum(Tail(ns))

\* text without the backslashes that stand immediately before a quote.
RECURSIVE DropEscapes(_)
DropEscapes(text) ==
    IF text = <<>> THEN <<>>
    ELSE IF Len(text) >= 2 /\ text[1] = "\\" /\ text[2] = "'"
         THEN DropEscapes(Tail(text))
         ELSE <<text[1]>> \o DropEscapes(Tail(text))

NoBackslashBeforeQuote(s) == \A i \in 1..(Len(s) - 1) : ~(s[i] = "\\" /\ s[i + 1] = "'")
NoBackslashAtEnd(s) == s = <<>> \/ s[Len(s)] # "\\"

-----------------------------------------------------------------------------
(* Properties of the Prompt Serializer, under SpecRender.                   *)

\* C1: after either serializer returns, the prompt holds exactly one entry
\* per listed file that was readable and whose content is not blank, and
\* no entry for a listed file that is unreadable, empty or whitespace-only.
C1_NoBlankOrUnreadableEntry ==
    Returned =>
        /\ Occurrences(<<" ", "w", "i", "t", "h", " ", "'">>, prompt_text)
               = Cardinality({i \in DOMAIN files : Included(files[i])})
        /\ \A i \in DOMAIN files :
               ~Included(files[i]) =>
                   Occurrences(<<"'">> \o Escaped(IdOf(files[i]))
                                   \o <<"'", " ", "w", "i", "t", "h", " ", "'">>,
                               prompt_text) = 0

\* A list with a whitespace-only file next to an included one was rendered.
C1_Witness ==
    /\ Returned
    /\ \E i, j \in DOMAIN files :
           /\ Readable(files[i])
           /\ ContentOf(files[i]) = Blank
           /\ Included(files[j])

\* C6: the prompt is the header line, the included entries formatted as
\* '<id>' with '<content>' in list order joined by ",\n", and a final line
\* "."; with no included entry the body is empty.
C6_PromptLayout ==
    Returned => prompt_text = ExpectedPrompt(IncludedFiles, Escaped)

\* A bulk call rendered two different included files.
C6_Witness ==
    /\ pc = "ret_bulk"
    /\ Len(IncludedFiles) = 2
    /\ IncludedFiles[1] # IncludedFiles[2]

C7_Proviso(fl) ==
    \A i \in DOMAIN fl :
        /\ NoBackslashBeforeQuote(IdOf(fl[i]))
        /\ NoBackslashBeforeQuote(ContentOf(fl[i]))

C7_NoTrailingBackslash(fl) ==
    \A i \in DOMAIN fl :
        /\ NoBackslashAtEnd(IdOf(fl[i]))
        /\ NoBackslashAtEnd(ContentOf(fl[i]))

C7_InputQuotes(fp) == QuoteCount(IdOf(fp)) + QuoteCount(ContentOf(fp))

\* C7 as stated: whenever no identifier or content holds a backslash
\* immediately before a quote, the quotes of the output that no backslash
\* precedes are exactly the four delimiter quotes of each entry.
C7_OnlyDelimitersBare ==
    (Returned /\ C7_Proviso(IncludedFiles)) =>
        BareQuotes(prompt_text) = 4 * Len(IncludedFiles)

\* C7 amended: the output is the unescaped rendering with one backslash
\* added per quote of the identifiers and contents and nothing else
\* changed; when moreover no identifier or content ends with a backslash,
\* the quotes no backslash precedes are exactly the four delimiters of each
\* entry, and dropping the backslashes before quotes gives back the
\* unescaped rendering.
C7_EscapingAmended ==
    Returned =>
        LET raw == ExpectedPrompt(IncludedFiles, Identity)
        IN  /\ Len(prompt_text) = Len(raw) + Sum([i \in 1..Len(IncludedFiles) |-> C7_InputQuotes(IncludedFiles[i])])
            /\ SelectSeq(prompt_text, LAMBDA c : c # "\\")
                   = SelectSeq(raw, LAMBDA c : c # "\\")
            /\ QuoteCount(prompt_text) = QuoteCount(raw)
            /\ (C7_Proviso(IncludedFiles) /\ C7_NoTrailingBackslash(IncludedFiles)) =>
                   /\ BareQuotes(prompt_text) = 4 * Len(IncludedFiles)
                   /\ DropEscapes(prompt_text) = raw

\* An entry with a quote in its identifier and in its content was rendered
\* and the provisos hold.
C7_Witness ==
    /\ Returned
    /\ C7_Proviso(IncludedFiles)
    /\ C7_NoTrailingBackslash(IncludedFiles)
    /\ \E i \in DOMAIN IncludedFiles :
           /\ QuoteCount(IdOf(IncludedFiles[i])) > 0
           /\ QuoteCount(ContentOf(IncludedFiles[i])) > 0

\* C9: a file that cannot be read adds no entry and one diagnostic, and the
\* output is the rendering of the list without the unreadable files.
C9_ReadFailureSkipped ==
    Returned =>
        LET ok == SelectSeq(files, Readable)
            bad == SelectSeq(files, LAMBDA fp : ~Readable(fp))
        IN  /\ prompt_text = IF pc = "ret_bulk"
                             THEN generate_prompt(target_folder, ok)
                             ELSE generate_prompt_individual(ok)
            /\ Len(diag) = Len(bad)
            /\ \A k \in DOMAIN bad :
                   diag[k] = [kind |-> "read_error", path |-> PathStr(bad[k])]

\* An unreadable file was followed in the list by an included one.
C9_Witness ==
    /\ Returned
    /\ \E i, j \in DOMAIN files :
           /\ i < j
           /\ ~Readable(files[i])
           /\ Included(files[j])

-----------------------------------------------------------------------------
(* Properties of the Path Filter, under SpecFilter.                         *)

C2_Root == Path(target_folder)

\* file_path is root / <some relative parts>.
C2_Under ==
    \E k \in 0..Len(file_path.parts) :
        file_path = PathJoin(C2_Root, SubSeq(file_path.parts, k + 1, Len(file_path.parts)))

\* The root-relative posix path of file_path.
C2_Relative ==
    LET rest == SubSeq(file_path.parts, Len(C2_Root.parts) + 1, Len(file_path.parts))
    IN  IF rest = <<>> THEN <<".">> ELSE Join(<<"/">>, rest)

C2_AbsoluteStyle(p) == p # <<>> /\ p[1] = "/"

\* C2: should_ignore is true exactly when the file is not under the root,
\* or an absolute-style pattern is a string prefix of the resolved absolute
\* path, or a relative pattern is a string prefix of the root-relative
\* posix path.
C2_ShouldIgnoreExact ==
    pc = "ret_should_ignore" =>
        result = ( \/ ~C2_Under
                   \/ \E p \in ignore_set :
                          /\ C2_AbsoluteStyle(p)
                          /\ HasPrefix(PathStr(Resolve(file_path)), p)
                   \/ \E p \in ignore_set :
                          /\ ~C2_AbsoluteStyle(p)
                          /\ HasPrefix(C2_Relative, p) )

\* The relative pattern "b" ignored s/b2/o under the root s.
C2_Witness ==
    /\ pc = "ret_should_ignore"
    /\ result = TRUE
    /\ ignore_set = {<<"b">>}
    /\ target_folder = <<"s">>
    /\ file_path = Path(<<"s", "/", "b", "2", "/", "o">>)

-----------------------------------------------------------------------------
(* Properties of the Individual List Loader, under SpecLoader.              *)

\* The non-blank trimmed lines of a source; for the script, without the
\* lines that start with '#'.
C5_PathLines(store, isScript) ==
    IF store = Absent THEN <<>>
    ELSE SelectSeq(TrimmedLines(store),
                   LAMBDA l : l # <<>> /\ ~(isScript /\ l[1] = "#"))

C5_ValidOf(lines) ==
    LET ok == SelectSeq(lines, IsFile) IN [i \in 1..Len(ok) |-> Path(ok[i])]

C5_InvalidOf(lines) == SelectSeq(lines, LAMBDA l : ~IsFile(l))

C5_PrimaryValid == C5_ValidOf(C5_PathLines(targetStore, FALSE))
C5_FallbackValid == C5_ValidOf(C5_PathLines(scriptStore, TRUE))

C5_Warnings(source) ==
    LET w == SelectSeq(diag, LAMBDA d : d.kind = "invalid" /\ d.source = source)
    IN  [i \in 1..Len(w) |-> w[i].path]

\* C5: valid primary paths are returned in line order without consulting
\* the fallback script; otherwise the valid script paths (blank and
\* '#'-prefixed lines skipped) in line order; None only if neither source
\* yields a valid path; every invalid line of a consulted source is warned
\* about and the lines after it are still processed.
C5_LoaderContract ==
    pc = "ret_load" =>
        /\ IF C5_PrimaryValid # <<>>
           THEN /\ result = [none |-> FALSE, paths |-> C5_PrimaryValid]
                /\ \A i \in DOMAIN diag : diag[i].kind = "none_loaded"
                                          \/ diag[i].source # "individual_files.sh"
           ELSE /\ IF C5_FallbackValid # <<>>
                   THEN result = [none |-> FALSE, paths |-> C5_FallbackValid]
                   ELSE result.none
                /\ C5_Warnings("individual_files.sh")
                       = C5_InvalidOf(C5_PathLines(scriptStore, TRUE))
        /\ C5_Warnings("target_files.txt") = C5_InvalidOf(C5_PathLines(targetStore, FALSE))

\* The primary list named a missing path before an existing one: only the
\* existing one was returned and the missing one was warned about.
C5_Witness ==
    /\ pc = "ret_load"
    /\ targetStore = <<"z", "z", "\n", "s", "/", "b", "2", "/", "o", "\n">>
    /\ result.paths = <<Path(<<"s", "/", "b", "2", "/", "o">>)>>
    /\ C5_Warnings("target_files.txt") = <<<<"z", "z">>>>

-----------------------------------------------------------------------------
(* Properties of a run of main(), under Spec.                               *)

\* The set of non-empty trimmed lines of the ignore file.
PatternSet(store) ==
    IF store = Absent THEN {} ELSE Range(TrimmedLines(store)) \ {<<>>}

\* s comes strictly before t in lexicographic (code point) order.
LexBefore(s, t) ==
    \E k \in 1..(Len(t)) :
        /\ k <= Len(s) + 1
        /\ \A i \in 1..(k - 1) : s[i] = t[i]
        /\ (k = Len(s) + 1 \/ Ord(s[k]) < Ord(t[k]))

\* The lines written to the ignore file: the text before each newline.
PersistedLines(store) ==
    LET ls == Split(store, "\n") IN SubSeq(ls, 1, Len(ls) - 1)

EndsWithNewlineOrEmpty(store) == store = <<>> \/ store[Len(store)] = "\n"

\* The run edited the ignore list (answered y) and has finished.
EditedAndSaved == pc = "done" /\ hist.updated

\* The patterns the typed lines stand for.
TypedPatterns == {Trim(l) : l \in hist.typed} \ {<<>>}

\* The run was save_ignore_paths(load_ignore_paths()): nothing typed added
\* a pattern.
RoundTripRun == EditedAndSaved /\ TypedPatterns \subseteq PatternSet(hist.ignore)

\* C3: save(load()) keeps the pattern set of the ignore file, and a second
\* save(load()) leaves the file byte-for-byte unchanged.
C3_IgnoreStoreRoundTrip ==
    RoundTripRun =>
        /\ PatternSet(ignoreStore) = PatternSet(hist.ignore)
        /\ save_ignore_paths(load_ignore_paths(ignoreStore)) = ignoreStore

\* A round trip rewrote an unsorted file with a duplicate and a blank line.
C3_Witness ==
    /\ RoundTripRun
    /\ hist.ignore = <<"b", "/", "\n", "\n", " ", "b", " ", "\n", "b", "\n">>
    /\ ignoreStore # hist.ignore

\* C4: after an edit of the ignore list every persisted line is a non-empty
\* pattern, the lines are in strictly increasing lexicographic order (so
\* none repeats), and the lines are exactly the patterns loaded plus the
\* non-blank inputs: blank and already present inputs add no line.
C4_PersistedPatterns ==
    EditedAndSaved =>
        LET ls == PersistedLines(ignoreStore)
        IN  /\ EndsWithNewlineOrEmpty(ignoreStore)
            /\ \A i \in DOMAIN ls : ls[i] # <<>> /\ Trim(ls[i]) = ls[i]
            /\ \A i \in DOMAIN ls : i < Len(ls) => LexBefore(ls[i], ls[i + 1])
            /\ Range(ls) = PatternSet(hist.ignore) \cup TypedPatterns
            /\ Len(ls) = Cardinality(PatternSet(hist.ignore) \cup TypedPatterns)

\* A blank input, a new pattern and the same pattern again (with spaces)
\* were typed over a file that was not sorted.
C4_Witness ==
    /\ EditedAndSaved
    /\ hist.ignore = <<"b", "2", "\n", "b", "/">>
    /\ {<<>>, <<"b">>, <<" ", "b", " ">>} \subseteq hist.typed

InvalidRoot == target_folder = <<>> \/ OsParts(target_folder) \notin Directories

\* C8: a bulk run with an invalid root ends before any store is read or
\* written, nothing is scanned and the output artifact is left as it was;
\* every other run is still waiting for an input, with the output artifact
\* untouched so far, or has ended after overwriting the output artifact
\* with the prompt of the run.
C8_InvalidRootAborts ==
    /\ pc = "exit1" =>
           /\ mode = T_bulk
           /\ InvalidRoot
           /\ ~hist.loaded_ignore
           /\ ignoreStore = hist.ignore
           /\ scriptStore = hist.script
           /\ outputStore = hist.output
           /\ files = <<>>
           /\ prompt_text = NoText
    /\ pc = "done" =>
           /\ prompt_text # NoText
           /\ outputStore = prompt_text
           /\ mode = T_bulk => ~InvalidRoot
    /\ pc \notin {"done", "exit1"} =>
           /\ outputStore = hist.output
           /\ mode = T_bulk /\ pc # "root" => ~InvalidRoot
           /\ pc \in {"mode", "root", "update", "ignore_loop", "load_option", "file_loop"}

\* A run aborted on an invalid root with an ignore file and an earlier
\* output on disk.
C8_Witness ==
    /\ pc = "exit1"
    /\ hist.ignore # Absent
    /\ hist.output # Absent

\* C10 as stated: after an individual-mode run saved the list L, loading
\* with the primary list absent, or yielding no valid path, returns L.
C10_ScriptRoundTrip ==
    (pc = "done" /\ mode = T_individual /\ files # <<>>) =>
        \A primary \in {Absent, targetStore} :
            (primary = Absent \/ C5_ValidOf(C5_PathLines(primary, FALSE)) = <<>>) =>
                LET again == load_individual_files_from_file(primary, scriptStore)
                IN  ~again.none /\ again.paths = files

====
